---------------------------- MODULE Spec2Model ----------------------------
(***************************************************************************)
(* Model of the mail-sense-ai classification core                          *)
(* (app/services/llm_openai.py): the rule engine, the template renderer,   *)
(* the remote adapter and the orchestrator analyse_with_openai, with the   *)
(* runtime extension API add_rule / add_template.                          *)
(*                                                                         *)
(* Conventions                                                             *)
(*  - A text is a sequence of fragments (words) taken from Words; the      *)
(*    empty sequence is the blank text.  The fragments are chosen so that  *)
(*    no regular expression of the program matches across two fragments.   *)
(*  - A confidence is an integer number of hundredths (0.65 is 65).        *)
(*  - Python's None is the string None; a raised exception is a record     *)
(*    of kind "raised".                                                    *)
(***************************************************************************)
EXTENDS Integers, Sequences, FiniteSets, TLC

VARIABLES
    rules,        \* _RULE_ENGINE.rules
    compiled,     \* _RULE_ENGINE._compiled
    n_added,      \* number of add_rule calls made so far (object identities)
    add_status,   \* how the last add_rule call ended: "none", "ok", "raised"
    TEMPLATES,    \* the module-level template mapping
    text,         \* email_text of the request being served
    outcome,      \* what the remote service did for this request
    ai_result,    \* value of _try_openai_classify(text)
    remote_calls, \* client.responses.create calls made for this request
    result,       \* what analyse_with_openai returned (or raised)
    pc,           \* position of each concurrent add_rule call
    pending,      \* the rule each concurrent add_rule call is adding
    new_list,     \* the list sorted(rules) each concurrent add_rule call built
    snapshot,     \* rule list and compiled list seen by the request served
    rendered      \* the last direct call of render_template and its value

vars == <<rules, compiled, n_added, add_status, TEMPLATES, text, outcome,
          ai_result, remote_calls, result, pc, pending, new_list, snapshot,
          rendered>>

engine_vars == <<rules, compiled, n_added, add_status>>
request_vars == <<text, outcome, ai_result, remote_calls, result, snapshot>>
conc_vars == <<pc, pending, new_list>>

-----------------------------------------------------------------------------
(* Bounds of the model *)

\* longest text, in fragments, of a request in Spec
MaxLen == 2
\* add_rule calls in one behaviour
MaxAdded == 2
\* longest text, in fragments, in SpecLocal
MaxLocalLen == 3

-----------------------------------------------------------------------------
(* Values *)

None == "None"

Categories == {"Produtivo", "Improdutivo"}

Min(a, b) == IF a <= b THEN a ELSE b

\* fragments a text is made of
Words == {"urgente", "suporte", "ajuda", "anexo", "promoção", "preciso", "#4521",
          "oi", "prezado"}

\* fragments of the texts of Spec
MainWords == {"urgente", "suporte", "anexo", "promoção", "preciso", "oi"}

\* len(word)
WordLen(w) ==
    CASE w = "oi" -> 2
      [] w \in {"anexo", "#4521", "ajuda"} -> 5
      [] w = "promoção" -> 8
      [] OTHER -> 7

RECURSIVE SumLen(_)
SumLen(t) == IF t = <<>> THEN 0 ELSE WordLen(Head(t)) + SumLen(Tail(t))

\* len(text) of the stripped text: the fragments joined by single spaces
TextLen(t) == IF t = <<>> THEN 0 ELSE SumLen(t) + (Len(t) - 1)

SeqsUpTo(S, n) == UNION {[1..k -> S] : k \in 0..n}

-----------------------------------------------------------------------------
(* Rules *)

Rule(name, patterns, priority, intent, category_override, reg) ==
    [name |-> name, patterns |-> patterns, priority |-> priority,
     intent |-> intent, category_override |-> category_override,
     min_hits |-> 1, reg |-> reg]

DEFAULT_RULES == <<
    Rule("urgent_support",
         <<"\\burgent", "\\burgente\\b", "\\bimediato", "\\bcrítico\\b", "erro grave">>,
         100, "support", "Produtivo", 1),
    Rule("support_generic",
         <<"\\bsuport", "\\bsuporte\\b", "\\bajuda\\b", "\\bproblema\\b", "\\bbug\\b", "\\berro\\b">>,
         90, "support", "Produtivo", 2),
    Rule("billing_words",
         <<"\\bfatura\\b", "\\bpagamento\\b", "\\bboleto\\b", "\\breembolso\\b", "\\bnota fiscal\\b", "\\bchargeback\\b">>,
         80, "billing", "Produtivo", 3),
    Rule("meeting_words",
         <<"\\breuni.{1,3}\\b", "\\bagendar\\b", "\\bagendamento\\b", "\\bdisponibilid">>,
         70, "meeting", "Produtivo", 4),
    Rule("attachment_words",
         <<"\\banexo\\b", "\\banexado\\b", "\\banexos\\b", "\\bsegue anexo\\b", "\\barquivo em anexo\\b">>,
         60, "attachment", None, 5),
    Rule("marketing_words",
         <<"\\bnewsletter\\b", "\\bpromoç", "\\boferta\\b", "\\bdivulgação\\b", "\\bevento\\b">>,
         30, "marketing", "Improdutivo", 6) >>

\* rules an administrator may register at run time (reg is set on registration)
NewRules == {
    Rule("vip_alert", <<"\\burgente\\b", "\\bsuporte\\b">>, 100, "vip", "Improdutivo", 0),
    Rule("support_billing", <<"\\bsuporte\\b">>, 100, "billing", None, 0),
    Rule("broken", <<"(">>, 95, "support", "Produtivo", 0) }

\* re.compile(p, re.IGNORECASE | re.UNICODE) succeeds
Compiles(p) == p # "("

\* the pairs <<pattern, fragment>> where pattern.findall(fragment) has one
\* match; every other pair of a pattern of the rules above and a fragment of
\* Words has none
RegexTable == {
    <<"\\burgent", "urgente">>, <<"\\burgente\\b", "urgente">>,
    <<"\\bsuport", "suporte">>, <<"\\bsuporte\\b", "suporte">>,
    <<"\\bajuda\\b", "ajuda">>,
    <<"\\banexo\\b", "anexo">>,
    <<"\\bpromoç", "promoção">> }

\* len(pat.findall(text))
FindallCount(pat, t) == Cardinality({i \in DOMAIN t : <<pat, t[i]>> \in RegexTable})

RECURSIVE SumHits(_, _)
SumHits(patterns, t) ==
    IF patterns = <<>> THEN 0
    ELSE FindallCount(Head(patterns), t) + SumHits(Tail(patterns), t)

-----------------------------------------------------------------------------
(* RuleEngine *)

\* an unstable sort: a rule goes before the rules of equal priority
InsertBeforeEquals(s, r) ==
    LET n == Cardinality({i \in DOMAIN s : s[i].priority > r.priority})
    IN  SubSeq(s, 1, n) \o <<r>> \o SubSeq(s, n + 1, Len(s))

\* one step of the stable sort: r goes after the rules of priority >= its own
InsertByPriority(s, r) ==
    LET n == Cardinality({i \in DOMAIN s : s[i].priority >= r.priority})
    IN  SubSeq(s, 1, n) \o <<r>> \o SubSeq(s, n + 1, Len(s))

RECURSIVE SortFrom(_, _)
SortFrom(acc, rest) ==
    IF rest = <<>> THEN acc
    ELSE SortFrom(InsertByPriority(acc, Head(rest)), Tail(rest))

\* sorted(rs, key=lambda r: r.priority, reverse=True): stable
SortedByPriority(rs) == SortFrom(<<>>, rs)

\* every pattern of every rule compiles
AllCompile(rs) ==
    \A i \in DOMAIN rs : \A j \in DOMAIN rs[i].patterns : Compiles(rs[i].patterns[j])

\* [(r, [re.compile(p) for p in r.patterns]) for r in rs]
CompileAll(rs) == [i \in DOMAIN rs |-> [rule |-> rs[i], pats |-> rs[i].patterns]]

\* RuleEngine.analyze over a compiled list
analyze(comp, t) ==
    LET all == [i \in DOMAIN comp |->
                   [rule |-> comp[i].rule, hits |-> SumHits(comp[i].pats, t)]]
    IN  SelectSeq(all, LAMBDA e : e.hits >= e.rule.min_hits)

-----------------------------------------------------------------------------
(* Templates *)

Tones == {"friendly", "formal", "concise"}

\* the text of TEMPLATES[intent][tone] as shipped: a non-empty text without
\* placeholders, named here by its place in the mapping
Shipped(intent, tone) ==
    CASE intent = "support" -> (CASE tone = "friendly" -> "support/friendly"
                                  [] tone = "formal" -> "support/formal"
                                  [] OTHER -> "support/concise")
      [] intent = "billing" -> (CASE tone = "friendly" -> "billing/friendly"
                                  [] tone = "formal" -> "billing/formal"
                                  [] OTHER -> "billing/concise")
      [] intent = "meeting" -> (CASE tone = "friendly" -> "meeting/friendly"
                                  [] tone = "formal" -> "meeting/formal"
                                  [] OTHER -> "meeting/concise")
      [] intent = "marketing" -> (CASE tone = "friendly" -> "marketing/friendly"
                                    [] tone = "formal" -> "marketing/formal"
                                    [] OTHER -> "marketing/concise")
      [] intent = "attachment" -> (CASE tone = "friendly" -> "attachment/friendly"
                                     [] tone = "formal" -> "attachment/formal"
                                     [] OTHER -> "attachment/concise")
      [] OTHER -> (CASE tone = "friendly" -> "general/friendly"
                     [] tone = "formal" -> "general/formal"
                     [] OTHER -> "general/concise")

ShippedIntents == {"support", "billing", "meeting", "marketing", "attachment", "general"}

InitialTemplates == [i \in ShippedIntents |-> [t \in Tones |-> Shipped(i, t)]]

\* the named placeholders of a template text
Placeholders(template) == IF template = "Olá {name}, recebemos seu pedido." THEN {"name"} ELSE {}

\* template.format(**extras) when every placeholder has a value
Substituted(template, extras) ==
    IF Placeholders(template) = {} THEN template
    ELSE IF extras["name"] = "Ana" THEN "Olá Ana, recebemos seu pedido."
    ELSE "Olá Rui, recebemos seu pedido."

\* detect_tone(text)
detect_tone(t) ==
    IF \E i \in DOMAIN t :
          t[i] \in {"prezado", "senhor", "senhora", "atenciosamente", "cordialmente"}
    THEN "formal"
    ELSE IF t # <<>> /\ t[1] \in {"bom dia", "boa tarde", "boa noite"} THEN "friendly"
    ELSE IF TextLen(t) < 80 THEN "concise"
    ELSE "friendly"

\* render_template(intent, tone, extras) over the mapping T; extras is a
\* function from placeholder names to values
render_template(T, intent, tone, extras) ==
    LET templates_for_intent ==
            IF intent \in DOMAIN T /\ DOMAIN T[intent] # {} THEN T[intent] ELSE T["general"]
        template ==
            IF tone \in DOMAIN templates_for_intent /\ templates_for_intent[tone] # ""
            THEN templates_for_intent[tone]
            ELSE IF "friendly" \in DOMAIN templates_for_intent
                 THEN templates_for_intent["friendly"]
                 ELSE None
    IN  IF template = None THEN None
        ELSE IF Placeholders(template) \subseteq DOMAIN extras
             THEN Substituted(template, extras)
             ELSE template

NoExtras == [k \in {} |-> ""]

\* add_template(intent, tone, template_text)
add_template(T, intent, tone, template_text) ==
    LET old == IF intent \in DOMAIN T THEN T[intent] ELSE [k \in {} |-> ""]
        new == [k \in DOMAIN old \cup {tone} |-> IF k = tone THEN template_text ELSE old[k]]
    IN  [i \in DOMAIN T \cup {intent} |-> IF i = intent THEN new ELSE T[i]]

\* add_template calls an administrator may make
NewTemplates == { <<"vip", "formal", "Olá {name}, recebemos seu pedido.">> }

-----------------------------------------------------------------------------
(* EmailAIResult *)

Raised(error) == [kind |-> "raised", error |-> error]

Reason(msg, rule, hits) == [msg |-> msg, rule |-> rule, hits |-> hits]

\* EmailAIResult(...): pydantic validates category, confidence and the str fields
EmailAIResult(category, confidence, short_reason, user_message, used_strategy, matched_intents) ==
    IF /\ category \in Categories
       /\ confidence >= 0 /\ confidence <= 100
       /\ user_message # None
    THEN [kind |-> "result", category |-> category, confidence |-> confidence,
          short_reason |-> short_reason, user_message |-> user_message,
          used_strategy |-> used_strategy, matched_intents |-> matched_intents]
    ELSE Raised("ValidationError")

\* simple_confidence_from_hits(hits), max_hits = 5: round(0.5 + ratio * 0.45, 2)
max_hits == 5

simple_confidence_from_hits(hits) == 50 + (Min(hits, max_hits) * 45) \div max_hits

-----------------------------------------------------------------------------
(* Remote adapter *)

AbsentResult == [kind |-> "none"]

\* JSON values of a payload
Num(n) == [t |-> "num", n |-> n, s |-> ""]
Str(s) == [t |-> "str", n |-> 0, s |-> s]

\* payload.get(key, default)
Get(payload, key, default) == IF key \in DOMAIN payload THEN payload[key] ELSE default

\* float(v) succeeds: a number, or a string that spells one
Floatable(v) == v.t = "num" \/ v.s \in {"0.7", "0.3"}

\* float(v), in hundredths
Float(v) == IF v.t = "num" THEN v.n ELSE IF v.s = "0.7" THEN 70 ELSE 30

\* what the remote service did: kind is
\*   "no_credential"  OPENAI_API_KEY unset or the SDK not importable
\*   "client_error"   OpenAI(api_key=...) raised
\*   "call_error"     client.responses.create raised (network, timeout, auth)
\*   "no_json"        the reply holds no {...}
\*   "bad_json"       json.loads raised
\*   "payload"        json.loads gave the dict payload
Outcome(kind, payload) == [kind |-> kind, payload |-> payload]

NoPayload == [k \in {} |-> Str("")]

\* client.responses.create calls made by _try_openai_classify
RemoteCalls(o) == IF o.kind \in {"no_credential", "client_error"} THEN 0 ELSE 1

\* _try_openai_classify(text), given what the remote service did
try_openai_classify(o) ==
    IF o.kind # "payload" THEN AbsentResult
    ELSE LET category == Get(o.payload, "category", Str("Improdutivo"))
             confidence == Get(o.payload, "confidence", Num(50))
             short_reason == Get(o.payload, "short_reason", Str(""))
             suggested_reply == Get(o.payload, "suggested_reply", Str(""))
         IN  IF ~Floatable(confidence) \/ category.t # "str" THEN AbsentResult
             ELSE LET r == EmailAIResult(category.s, Float(confidence),
                                         Reason(short_reason.s, "", 0),
                                         suggested_reply.s, "openai", <<>>)
                  IN  IF r.kind = "raised" THEN AbsentResult ELSE r

-----------------------------------------------------------------------------
(* Orchestrator *)

\* a lower threshold: remote answers of confidence 0.50 accepted outright
HIGH_TRUST_Half == 100 \div 2

\* the confidence from which a remote answer is accepted outright
HIGH_TRUST == 65

\* the confidence from which a rule without override gives Produtivo
PRODUCTIVE_FROM == 60

\* re.search(r"\b(preciso|gostaria|poderia|solicito|favor|por favor|pode me)\b", text)
RequestLanguage(t) ==
    \E i \in DOMAIN t :
        t[i] \in {"preciso", "gostaria", "poderia", "solicito", "favor", "por favor", "pode me"}

\* matched_intents = [r.intent for r, hits in rule_hits]
IntentsOf(rule_hits) == [i \in DOMAIN rule_hits |-> rule_hits[i].rule.intent]

RECURSIVE IntentHits(_, _)
\* intent_hits_map.get(intent): the hits of the rules of that intent, summed
IntentHits(rule_hits, intent) ==
    IF rule_hits = <<>> THEN 0
    ELSE (IF Head(rule_hits).rule.intent = intent THEN Head(rule_hits).hits ELSE 0)
         + IntentHits(Tail(rule_hits), intent)

\* the rules branch of analyse_with_openai: rule_hits is not empty
RulesResult(T, t, rule_hits) ==
    LET best_rule == rule_hits[1].rule
        intent == best_rule.intent
        hits == IntentHits(rule_hits, intent)
        confidence == simple_confidence_from_hits(hits)
        category == IF best_rule.category_override # None
                    THEN best_rule.category_override
                    ELSE IF confidence >= PRODUCTIVE_FROM THEN "Produtivo" ELSE "Improdutivo"
        message == render_template(T, intent, detect_tone(t), NoExtras)
    IN  EmailAIResult(category, confidence,
                      Reason("Regra acionada", best_rule.name, hits),
                      message, "rules", IntentsOf(rule_hits))

\* the last branch of analyse_with_openai: the low-confidence remote answer
FallbackResult(T, t, openai_fallback) ==
    EmailAIResult(openai_fallback.category, openai_fallback.confidence,
                  Reason("Resposta do LLM com baixa confiança; usada como fallback.", "", 0),
                  IF openai_fallback.user_message # ""
                  THEN openai_fallback.user_message
                  ELSE render_template(T, "general", detect_tone(t), NoExtras),
                  "openai-fallback", <<>>)

\* analyse_with_openai(email_text), given the value ai of _try_openai_classify
analyse_with_openai(T, comp, t, ai) ==
    IF t = <<>>
    THEN EmailAIResult("Improdutivo", 0, Reason("Texto vazio", "", 0),
                       "Nenhum conteúdo encontrado no email.", "none", <<>>)
    ELSE IF ai.kind = "result" /\ ai.confidence >= HIGH_TRUST
    THEN [ai EXCEPT !.used_strategy = "openai"]
    ELSE LET rule_hits == analyze(comp, t)
         IN  IF rule_hits # <<>> THEN RulesResult(T, t, rule_hits)
             ELSE IF RequestLanguage(t)
             THEN EmailAIResult("Produtivo", 60,
                      Reason("Heurística simples detectou linguagem de solicitação.", "", 0),
                      render_template(T, "general", detect_tone(t), NoExtras),
                      "heuristic", <<>>)
             ELSE IF ai.kind = "result" THEN FallbackResult(T, t, ai)
             ELSE EmailAIResult("Improdutivo", 55,
                      Reason("Nenhuma regra ou padrão de solicitação detectado.", "", 0),
                      render_template(T, "general", detect_tone(t), NoExtras),
                      "fallback", <<>>)

-----------------------------------------------------------------------------
(* Extension API *)

\* RuleEngine.__init__(self, rs) on an engine whose compiled list is comp:
\* self.rules is assigned first; a pattern that does not compile raises
\* before self._compiled is assigned
RuleEngine_init(rs, comp) ==
    LET new_rules == SortedByPriority(rs)
    IN  IF AllCompile(new_rules)
        THEN [rules |-> new_rules, compiled |-> CompileAll(new_rules), status |-> "ok"]
        ELSE [rules |-> new_rules, compiled |-> comp, status |-> "raised"]

\* add_rule(rule) on the engine (rs, comp)
add_rule(rs, comp, rule) == RuleEngine_init(Append(rs, rule), comp)

\* the Rule object of the n-th add_rule call
Registered(r, n) == [r EXCEPT !.reg = Len(DEFAULT_RULES) + n]

-----------------------------------------------------------------------------
(* Inputs *)

Texts == SeqsUpTo(MainWords, MaxLen)

LocalTexts == SeqsUpTo(Words, MaxLocalLen)

Keys == {"category", "confidence", "short_reason", "suggested_reply"}

Missing == [t |-> "missing", n |-> 0, s |-> ""]

\* the dict with the keys whose value is not Missing
MkPayload(c, f, r, m) ==
    LET all == [k \in Keys |-> CASE k = "category" -> c
                                 [] k = "confidence" -> f
                                 [] k = "short_reason" -> r
                                 [] OTHER -> m]
    IN  [k \in {x \in Keys : all[x].t # "missing"} |-> all[k]]

Failures == {Outcome(k, NoPayload) :
                k \in {"no_credential", "client_error", "call_error", "no_json", "bad_json"}}

\* remote outcomes of Spec: three failures, and well-formed payloads on both
\* sides of the threshold, with and without a suggested reply
MainOutcomes ==
    {Outcome(k, NoPayload) : k \in {"no_credential", "call_error", "no_json"}}
    \cup {Outcome("payload", MkPayload(Str(c), Num(f), Str("motivo"), Str(m))) :
             c \in Categories, f \in {64, 65}, m \in {"", "Resposta sugerida"}}

\* remote outcomes of SpecRemote: every failure, and payloads with keys
\* missing, a category outside the two values, a confidence out of range or
\* not a number
WideOutcomes ==
    Failures
    \cup {Outcome("payload", MkPayload(c, f, r, m)) :
             c \in {Missing, Str("Produtivo"), Str("Improdutivo"), Str("Spam")},
             f \in {Missing, Num(30), Num(90), Num(150), Num(-10), Str("0.7"), Str("alta")},
             r \in {Missing, Str("motivo")},
             m \in {Missing, Str(""), Str("Resposta sugerida")}}

RemoteTexts == {<<"oi">>, <<"suporte">>}

-----------------------------------------------------------------------------
(* Actions *)

Idle == [kind |-> "idle"]

NoSnapshot == [rules |-> <<>>, compiled |-> <<>>]

InitEngine ==
    /\ rules = SortedByPriority(DEFAULT_RULES)
    /\ compiled = CompileAll(SortedByPriority(DEFAULT_RULES))
    /\ n_added = 0
    /\ add_status = "none"

InitRequest ==
    /\ text = <<>>
    /\ outcome = Outcome("no_credential", NoPayload)
    /\ ai_result = AbsentResult
    /\ remote_calls = 0
    /\ result = Idle
    /\ snapshot = NoSnapshot

Writers == {"w1", "w2"}

InitConc ==
    /\ pc = [w \in Writers |-> "idle"]
    /\ pending = [w \in Writers |-> Rule("", <<>>, 0, "", None, 0)]
    /\ new_list = [w \in Writers |-> <<>>]

\* no direct call of render_template is pending
NoRender == [kind |-> "none"]

Init ==
    /\ InitEngine
    /\ TEMPLATES = InitialTemplates
    /\ InitRequest
    /\ InitConc
    /\ rendered = NoRender

\* one call of analyse_with_openai(t), the remote service doing o
Serve(t, o) ==
    /\ result = Idle
    /\ text' = t
    /\ outcome' = o
    /\ ai_result' = IF t = <<>> THEN AbsentResult ELSE try_openai_classify(o)
    /\ remote_calls' = IF t = <<>> THEN 0 ELSE RemoteCalls(o)
    /\ result' = analyse_with_openai(TEMPLATES, compiled, t, ai_result')
    /\ snapshot' = [rules |-> rules, compiled |-> compiled]

Analyse ==
    /\ \E t \in Texts, o \in MainOutcomes : Serve(t, o)
    /\ UNCHANGED <<engine_vars, TEMPLATES, conc_vars, rendered>>

\* _handle_analyse hands the result to the presentation layer
Respond ==
    /\ result # Idle
    /\ text' = <<>>
    /\ outcome' = Outcome("no_credential", NoPayload)
    /\ ai_result' = AbsentResult
    /\ remote_calls' = 0
    /\ result' = Idle
    /\ snapshot' = NoSnapshot
    /\ UNCHANGED <<engine_vars, TEMPLATES, conc_vars, rendered>>

AddRule ==
    /\ result = Idle
    /\ n_added < MaxAdded
    /\ \E r \in NewRules :
          LET e == add_rule(rules, compiled, Registered(r, n_added + 1))
          IN  /\ rules' = e.rules
              /\ compiled' = e.compiled
              /\ add_status' = e.status
    /\ n_added' = n_added + 1
    /\ UNCHANGED <<TEMPLATES, request_vars, conc_vars, rendered>>

AddTemplate ==
    /\ result = Idle
    /\ \E a \in NewTemplates : TEMPLATES' = add_template(TEMPLATES, a[1], a[2], a[3])
    /\ UNCHANGED <<engine_vars, request_vars, conc_vars, rendered>>

Next == AddRule \/ AddTemplate \/ Analyse \/ Respond

Spec == Init /\ [][Next]_vars

-----------------------------------------------------------------------------
(* The local path alone: the shipped rules and templates, no credential *)

AnalyseLocal ==
    /\ \E t \in LocalTexts : Serve(t, Outcome("no_credential", NoPayload))
    /\ UNCHANGED <<engine_vars, TEMPLATES, conc_vars, rendered>>

NextLocal == AnalyseLocal \/ Respond

SpecLocal == Init /\ [][NextLocal]_vars

-----------------------------------------------------------------------------
(* The remote adapter over every shape of reply: the shipped rules and templates *)

AnalyseRemote ==
    /\ \E t \in RemoteTexts, o \in WideOutcomes : Serve(t, o)
    /\ UNCHANGED <<engine_vars, TEMPLATES, conc_vars, rendered>>

NextRemote == AnalyseRemote \/ Respond

SpecRemote == Init /\ [][NextRemote]_vars

-----------------------------------------------------------------------------
(* add_rule step by step, run by concurrent threads beside the requests *)

\* _RULE_ENGINE.rules.append(rule)
AppendRule(w) ==
    /\ pc[w] = "idle"
    /\ n_added < MaxAdded
    /\ \E r \in NewRules :
          /\ pending' = [pending EXCEPT ![w] = Registered(r, n_added + 1)]
          /\ rules' = Append(rules, Registered(r, n_added + 1))
    /\ n_added' = n_added + 1
    /\ pc' = [pc EXCEPT ![w] = "appended"]
    /\ UNCHANGED <<compiled, add_status, new_list, TEMPLATES, request_vars, rendered>>

\* __init__: sorted(rules, key=..., reverse=True) of the list passed in
SortRules(w) ==
    /\ pc[w] = "appended"
    /\ new_list' = [new_list EXCEPT ![w] = SortedByPriority(rules)]
    /\ pc' = [pc EXCEPT ![w] = "sorted"]
    /\ UNCHANGED <<engine_vars, pending, TEMPLATES, request_vars, rendered>>

\* __init__: self.rules = <the sorted list>
AssignRules(w) ==
    /\ pc[w] = "sorted"
    /\ rules' = new_list[w]
    /\ pc' = [pc EXCEPT ![w] = "assigned"]
    /\ UNCHANGED <<compiled, n_added, add_status, pending, new_list, TEMPLATES, request_vars, rendered>>

\* __init__: self._compiled = [(r, [re.compile(p) ...]) for r in self.rules],
\* or the exception of re.compile, which ends add_rule
AssignCompiled(w) ==
    /\ pc[w] = "assigned"
    /\ IF AllCompile(rules)
       THEN compiled' = CompileAll(rules) /\ add_status' = "ok"
       ELSE compiled' = compiled /\ add_status' = "raised"
    /\ pc' = [pc EXCEPT ![w] = "idle"]
    /\ UNCHANGED <<rules, n_added, pending, new_list, TEMPLATES, request_vars, rendered>>

ConcTexts == {<<"suporte">>, <<"urgente">>, <<"oi">>}

AnalyseConc ==
    /\ \E t \in ConcTexts : Serve(t, Outcome("no_credential", NoPayload))
    /\ UNCHANGED <<engine_vars, TEMPLATES, conc_vars, rendered>>

NextConc ==
    \/ \E w \in Writers : AppendRule(w)
    \/ \E w \in Writers : SortRules(w)
    \/ \E w \in Writers : AssignRules(w)
    \/ \E w \in Writers : AssignCompiled(w)
    \/ AnalyseConc
    \/ Respond

SpecConc == Init /\ [][NextConc]_vars

-----------------------------------------------------------------------------
(* add_rule calls whose patterns all compile, run by concurrent threads *)

\* the rules of NewRules that re.compile accepts
GoodRules == {r \in NewRules : AllCompile(<<r>>)}

\* _RULE_ENGINE.rules.append(rule), the rule one that compiles
AppendGoodRule(w) ==
    /\ pc[w] = "idle"
    /\ n_added < MaxAdded
    /\ \E r \in GoodRules :
          /\ pending' = [pending EXCEPT ![w] = Registered(r, n_added + 1)]
          /\ rules' = Append(rules, Registered(r, n_added + 1))
    /\ n_added' = n_added + 1
    /\ pc' = [pc EXCEPT ![w] = "appended"]
    /\ UNCHANGED <<compiled, add_status, new_list, TEMPLATES, request_vars, rendered>>

NextRace ==
    \/ \E w \in Writers : AppendGoodRule(w)
    \/ \E w \in Writers : SortRules(w)
    \/ \E w \in Writers : AssignRules(w)
    \/ \E w \in Writers : AssignCompiled(w)

SpecRace == Init /\ [][NextRace]_vars

-----------------------------------------------------------------------------
(* The template renderer called directly, beside add_template *)

\* add_template calls of SpecRender: a new intent and the general one, with a
\* text that has a placeholder and with the empty text
RenderTemplates ==
    {<<i, t, x>> : i \in {"vip", "general"}, t \in {"formal", "friendly"},
                   x \in {"Olá {name}, recebemos seu pedido.", ""}}

\* render_template calls of SpecRender: a shipped intent, a registered one and
\* an unknown one; a shipped tone, an unknown one; extras with and without
\* the placeholder's value
RenderIntents == {"general", "vip", "refund"}

RenderTones == {"formal", "friendly", "concise", "casual"}

RenderExtras == {NoExtras, [k \in {"name"} |-> "Ana"]}

AddTemplateRender ==
    /\ rendered = NoRender
    /\ \E a \in RenderTemplates : TEMPLATES' = add_template(TEMPLATES, a[1], a[2], a[3])
    /\ UNCHANGED <<engine_vars, request_vars, conc_vars, rendered>>

\* one call render_template(intent, tone, extras)
Render ==
    /\ rendered = NoRender
    /\ \E i \in RenderIntents, t \in RenderTones, e \in RenderExtras :
          rendered' = [kind |-> "call", intent |-> i, tone |-> t, extras |-> e,
                       value |-> render_template(TEMPLATES, i, t, e)]
    /\ UNCHANGED <<engine_vars, TEMPLATES, request_vars, conc_vars>>

\* the caller takes the value
ReturnRendered ==
    /\ rendered # NoRender
    /\ rendered' = NoRender
    /\ UNCHANGED <<engine_vars, TEMPLATES, request_vars, conc_vars>>

NextRender == AddTemplateRender \/ Render \/ ReturnRendered

SpecRender == Init /\ [][NextRender]_vars

-----------------------------------------------------------------------------
(* Properties *)

\* a request has been served: analyse_with_openai returned or raised
Served == result # Idle

Returned == result.kind = "result"

\* the rules of a compiled list, in its order
RulesOf(comp) == [i \in DOMAIN comp |-> comp[i].rule]

\* the hits analyze gave the request served
Hits == analyze(snapshot.compiled, text)

RemoteLow == ai_result.kind = "result" /\ ai_result.confidence < 65

RemoteHigh == ai_result.kind = "result" /\ ai_result.confidence >= 65

\* rule a goes before rule b: higher priority, or equal priority and
\* registered earlier
Before(a, b) ==
    \/ a.priority > b.priority
    \/ a.priority = b.priority /\ a.reg < b.reg

InOrder(rs) == \A i, j \in DOMAIN rs : i < j => Before(rs[i], rs[j])

\* the text holds a spam or marketing keyword
HasSpamKeyword(t) == \E i \in DOMAIN t : t[i] \in {"promoção", "unsubscribe"}

\* the text holds '#' and two digits or more
HasProtocolNumber(t) == \E i \in DOMAIN t : t[i] = "#4521"

\* the text is made of support keywords only
SupportOnly(t) == t # <<>> /\ \A i \in DOMAIN t : t[i] \in {"suporte", "ajuda"}

(* C1: every call of analyse_with_openai, whatever the text, the remote
   outcome and the rules and templates registered so far, returns without
   raising a result whose category is Produtivo or Improdutivo and whose
   confidence lies in [0, 1]. *)
C1_AlwaysValidResult ==
    Served => /\ Returned
              /\ result.category \in Categories
              /\ result.confidence >= 0 /\ result.confidence <= 100

(* C2: the result returned by analyse_with_openai never has an empty
   user_message. *)
C2_NeverEmptyMessage == Returned => result.user_message # ""

(* C3: a low-confidence remote answer never overrides a local match.  Of a
   returned result: the remote category and confidence are the result only
   if the remote confidence is at least 0.65 (openai), or if no rule fired
   and the request-language heuristic did not match (openai-fallback); below
   the threshold with a rule firing the result is the rules one, with the
   intent, name and category override of the first hit; below the threshold
   with no rule firing and request language present it is the heuristic one,
   Produtivo at 0.6. *)
C3_LowConfidenceNeverOverrides ==
    Returned =>
      /\ result.used_strategy = "openai" =>
            /\ RemoteHigh
            /\ result.category = ai_result.category
            /\ result.confidence = ai_result.confidence
      /\ result.used_strategy = "openai-fallback" =>
            /\ RemoteLow /\ Hits = <<>> /\ ~RequestLanguage(text)
            /\ result.category = ai_result.category
            /\ result.confidence = ai_result.confidence
      /\ (RemoteLow /\ Hits # <<>>) =>
            /\ result.used_strategy = "rules"
            /\ result.matched_intents[1] = Hits[1].rule.intent
            /\ result.short_reason.rule = Hits[1].rule.name
            /\ Hits[1].rule.category_override # None =>
                  result.category = Hits[1].rule.category_override
      /\ (RemoteLow /\ Hits = <<>> /\ RequestLanguage(text)) =>
            /\ result.used_strategy = "heuristic"
            /\ result.category = "Produtivo"
            /\ result.confidence = 60

\* a low-confidence remote answer of the other category lost to a rule
C3_Witness ==
    /\ Returned /\ RemoteLow /\ Hits # <<>>
    /\ result.used_strategy = "rules"
    /\ result.category # ai_result.category

(* C4: the remote adapter gives absent whenever the credential is missing,
   the client cannot be built, the call fails or the payload deviates from
   the expected shape: a key of the four missing, a category outside the two
   values, a confidence that is not a number of [0, 1]. *)
C4_DeviationIsAbsent ==
    LET p == outcome.payload
        deviates ==
            \/ outcome.kind # "payload"
            \/ ~(Keys \subseteq DOMAIN p)
            \/ ~(p["category"].t = "str" /\ p["category"].s \in Categories)
            \/ ~(p["confidence"].t = "num" /\ p["confidence"].n >= 0
                                           /\ p["confidence"].n <= 100)
    IN  (Served /\ text # <<>> /\ deviates) => ai_result = AbsentResult

(* C5: a non-blank text that is under 5 characters or holds a spam keyword is
   answered before the remote attempt and the rule engine: Improdutivo,
   confidence at least 0.90, used_strategy heuristic, no remote call made. *)
C5_QuickHeuristic ==
    (Served /\ text # <<>> /\ (TextLen(text) < 5 \/ HasSpamKeyword(text))) =>
        /\ Returned
        /\ result.category = "Improdutivo"
        /\ result.confidence >= 90
        /\ result.used_strategy = "heuristic"
        /\ remote_calls = 0

(* C6: with the remote result absent, a text of support keywords only (no
   protocol number, no request verb) is never Produtivo at a confidence of
   0.90 or more, however many keyword hits it has. *)
C6_SupportOnlyNotHighProdutivo ==
    (Served /\ ai_result = AbsentResult /\ SupportOnly(text)) =>
        ~(Returned /\ result.category = "Produtivo" /\ result.confidence >= 90)

(* C7: with the remote result absent, a text with a protocol number and no
   spam keyword is Produtivo at a confidence of 0.90 or more. *)
C7_ProtocolNumberProdutivo ==
    (Served /\ ai_result = AbsentResult /\ HasProtocolNumber(text)
            /\ ~HasSpamKeyword(text)) =>
        (Returned /\ result.category = "Produtivo" /\ result.confidence >= 90)

\* the rule of rs that matches t and goes before every other rule that does
BestMatching(rs, t) ==
    LET m == {i \in DOMAIN rs : SumHits(rs[i].patterns, t) >= rs[i].min_hits}
    IN  rs[CHOOSE i \in m : \A j \in m \ {i} : Before(rs[i], rs[j])]

(* C8: after construction and any sequence of successful add_rule calls the
   rule list is in descending priority, rules of equal priority in
   registration order; analyze returns its hits in that order; so on the
   rules path the name, intent and category override of the result are those
   of the matching rule of highest priority, the earliest registered one
   among equals. *)
C8_PriorityOrder ==
    add_status # "raised" =>
      /\ InOrder(rules)
      /\ Served => InOrder([i \in DOMAIN Hits |-> Hits[i].rule])
      /\ (Returned /\ result.used_strategy = "rules") =>
            LET best == BestMatching(rules, text)
            IN  /\ result.short_reason.rule = best.name
                /\ result.matched_intents[1] = best.intent
                /\ best.category_override # None =>
                      result.category = best.category_override

\* three rules match: two registered at run time tie, and the second was
\* registered after the shipped rule it goes before
C8_Witness ==
    /\ add_status = "ok" /\ Returned /\ result.used_strategy = "rules"
    /\ Len(Hits) >= 3
    /\ Hits[1].rule.priority = Hits[2].rule.priority
    /\ Hits[1].rule.name # Hits[2].rule.name
    /\ Hits[2].rule.priority > Hits[3].rule.priority
    /\ Hits[2].rule.reg > Hits[3].rule.reg

(* C9: add_rule never partially applies: a call that fails leaves the rule
   list and the compiled list as they were, and after every call the rule
   list and the compiled list hold the same rules in the same order. *)
C9_AddRuleAtomic ==
    [][(n_added' = n_added + 1) =>
          /\ add_status' = "raised" => (rules' = rules /\ compiled' = compiled)
          /\ RulesOf(compiled') = rules']_vars

(* C10: a request served while add_rule calls run sees the complete old rule
   set or the complete new sorted one: the rule list it sees is in priority
   order and holds the rules of the compiled list it sees, in the same
   order. *)
C10_ReaderSeesWholeRuleSet ==
    Served => /\ InOrder(snapshot.rules)
              /\ RulesOf(snapshot.compiled) = snapshot.rules


(* C11: whatever add_template calls were made, render_template(intent, tone,
   extras) returns a template text and never nothing: an intent absent from
   the mapping gives a text of the general templates, a tone absent from the
   chosen intent's map gives that map's friendly template, and a placeholder
   without a value in extras gives the template text unsubstituted. *)
C11_RenderAlwaysTemplate ==
    rendered.kind = "call" =>
        LET chosen == IF rendered.intent \in DOMAIN TEMPLATES
                      THEN TEMPLATES[rendered.intent]
                      ELSE TEMPLATES["general"]
            texts == {chosen[k] : k \in DOMAIN chosen}
            filled == {Substituted(x, rendered.extras) :
                          x \in {y \in texts : Placeholders(y) \subseteq DOMAIN rendered.extras}}
        IN  /\ rendered.value # None
            /\ rendered.value \in texts \cup filled
            /\ rendered.tone \notin DOMAIN chosen =>
                  /\ "friendly" \in DOMAIN chosen
                  /\ rendered.value \in
                        {chosen["friendly"], Substituted(chosen["friendly"], [k \in {"name"} |-> "Ana"])}
            /\ (\A x \in texts : ~(Placeholders(x) \subseteq DOMAIN rendered.extras)) =>
                  rendered.value \in texts

\* the positions of a rule list that hold the rule of the k-th add_rule call
PositionsOf(rs, k) == {i \in DOMAIN rs : rs[i].reg = Len(DEFAULT_RULES) + k}

\* the positions of the compiled list that hold the rule of the k-th call
CompiledPositionsOf(comp, k) == {i \in DOMAIN comp : comp[i].rule.reg = Len(DEFAULT_RULES) + k}

(* C12: no registration is lost under concurrent add_rule calls: once every
   call has returned, each rule passed to add_rule is present exactly once in
   the rule list and exactly once in the compiled list, whatever the
   interleaving of the append, sort, assign-rules and assign-compiled steps. *)
C12_NoLostRegistration ==
    (\A w \in Writers : pc[w] = "idle") =>
        \A k \in 1..n_added :
            /\ Cardinality(PositionsOf(rules, k)) = 1
            /\ Cardinality(CompiledPositionsOf(compiled, k)) = 1

=============================================================================
